---- MODULE Spec2Model ----
(***************************************************************************)
(* Model of vmware_to_kubevirt_migration.go (src/main.go).                 *)
(*                                                                         *)
(* The program creates a credential Secret through the Kubernetes API,     *)
(* renders a Provider, a Plan and a Migration manifest with fmt.Sprintf    *)
(* and hands each to applyYAMLToCluster, which parses and prints it.       *)
(*                                                                         *)
(* A Go string is modelled as a sequence of text pieces, so that           *)
(* fmt.Sprintf is concatenation and "" is the empty sequence.              *)
(* A rendered manifest is the record of the scalars substituted into the   *)
(* template.  Several executions of main share one cluster.                *)
(***************************************************************************)
EXTENDS Integers, Sequences, FiniteSets, TLC

\* number of executions of main sharing the cluster
NumRuns == 2

Runs == 1..NumRuns

VARIABLES
    cluster,   \* objects stored by the API server
    pc,        \* pc[r]: position of execution r in main
    req,       \* req[r]: the parameters of execution r (details, plan and migration names)
    trace,     \* trace[r]: the stages execution r has attempted, in order, with their results
    rerun,     \* rerun[r]: r started after a fully successful execution with the same parameters
    bIn,       \* input of a stand-alone builder call
    bOut       \* result of a stand-alone builder call followed by applyYAMLToCluster

vars == <<cluster, pc, req, trace, rerun, bIn, bOut>>

runVars == <<cluster, pc, req, trace, rerun>>

buildVars == <<bIn, bOut>>

----------------------------------------------------------------------------
(* Strings *)

\* text pieces whose characters are all lowercase alphanumerics or '-'
PlainPieces ==
    {"vmware-demo", "vm2", "-secret", "forklift", "migration-plan-demo",
     "migration-demo", "kubevirt-provider", "default-networkmap",
     "default-storagemap", "vm-12345", "x254"}

\* number of characters of a text piece ("x254" stands for 254 letters x)
PieceLen(p) ==
    CASE p = "vmware-demo" -> 11
      [] p = "vm2" -> 3
      [] p = "-secret" -> 7
      [] p = "forklift" -> 8
      [] p = "migration-plan-demo" -> 19
      [] p = "migration-demo" -> 14
      [] p = "kubevirt-provider" -> 17
      [] p = "default-networkmap" -> 18
      [] p = "default-storagemap" -> 18
      [] p = "vm-12345" -> 8
      [] p = "x254" -> 254
      [] p = "Bad_Name" -> 8
      [] p = "a: b" -> 4
      [] p = "vcenter.example.com" -> 19
      [] p = "https://" -> 8
      [] p = "administrator@vsphere.local" -> 27
      [] p = "your-password" -> 13
      [] OTHER -> 1

RECURSIVE StrLen(_)
StrLen(s) == IF s = <<>> THEN 0 ELSE PieceLen(Head(s)) + StrLen(Tail(s))

\* fmt.Sprintf("%s-secret", name)
SecretNameOf(name) == name \o <<"-secret">>

----------------------------------------------------------------------------
(* The literals of main *)

Namespace == <<"forklift">>
Username == <<"administrator@vsphere.local">>
Password == <<"your-password">>
DestProvider == <<"kubevirt-provider">>
NetworkMap == <<"default-networkmap">>
StorageMap == <<"default-storagemap">>
VmID == <<"vm-12345">>

----------------------------------------------------------------------------
(* Pure functions *)

\* the Secret object createSecretForVMware builds before calling Create
SecretObject(namespace, name, username, password) ==
    [kind |-> "Secret",
     fields |-> [name |-> name, namespace |-> namespace, type |-> <<"Opaque">>,
                 user |-> username, password |-> password]]

\* createVMwareProviderYAML with the name and the secret name in each other's place
createVMwareProviderYAMLSwapped(name, url, secretName, namespace) ==
    [err |-> "nil",
     doc |-> [kind |-> "Provider",
              fields |-> [name |-> secretName, namespace |-> namespace,
                          type |-> <<"vsphere">>, url |-> <<"https://">> \o url,
                          secretName |-> name, secretNamespace |-> namespace]]]

\* createVMwareProviderYAML: the template with its five %s filled in; the error is always nil
createVMwareProviderYAML(name, url, secretName, namespace) ==
    [err |-> "nil",
     doc |-> [kind |-> "Provider",
              fields |-> [name |-> name, namespace |-> namespace,
                          type |-> <<"vsphere">>, url |-> <<"https://">> \o url,
                          secretName |-> secretName, secretNamespace |-> namespace]]]

\* createPlanYAML: the template with its seven %s filled in; the error is always nil
createPlanYAML(planName, sourceProvider, destProvider, vmID, networkMap, storageMap, namespace) ==
    [err |-> "nil",
     doc |-> [kind |-> "Plan",
              fields |-> [name |-> planName, namespace |-> namespace,
                          source |-> sourceProvider, destination |-> destProvider,
                          network |-> networkMap, storage |-> storageMap,
                          vmID |-> vmID]]]

\* createMigrationYAML refusing an empty migration name
createMigrationYAMLValidating(migrationName, planName, namespace) ==
    [err |-> IF migrationName = <<>> THEN "ValidationError" ELSE "nil",
     doc |-> [kind |-> "Migration",
              fields |-> [name |-> migrationName, namespace |-> namespace,
                          plan |-> planName]]]

\* createMigrationYAML: the template with its three %s filled in; the error is always nil
createMigrationYAML(migrationName, planName, namespace) ==
    [err |-> "nil",
     doc |-> [kind |-> "Migration",
              fields |-> [name |-> migrationName, namespace |-> namespace,
                          plan |-> planName]]]

\* a scalar the YAML parser rejects where a plain scalar is expected:
\* "key: a: b" is the error "mapping values are not allowed in this context"
BreaksYAML(s) == \E i \in 1..Len(s) : s[i] = "a: b"

\* what the YAML parser makes of an empty scalar, and of the word null
YAMLNull == <<"null">>

\* yamlutil.Unmarshal into map[string]interface{}
Unmarshal(yamlContent) ==
    IF \E f \in DOMAIN yamlContent.fields : BreaksYAML(yamlContent.fields[f])
    THEN [err |-> "yaml", obj |-> [kind |-> "none", fields |-> <<>>]]
    ELSE [err |-> "nil",
          obj |-> [kind |-> yamlContent.kind,
                   fields |-> [f \in DOMAIN yamlContent.fields |->
                                 IF yamlContent.fields[f] = <<>>
                                 THEN YAMLNull ELSE yamlContent.fields[f]]]]

\* applyYAMLToCluster submitting the parsed object to the cluster
applyYAMLCreates(yamlContent, cl) ==
    LET u == Unmarshal(yamlContent)
    IN  [err |-> u.err,
         printed |-> IF u.err = "nil" THEN <<yamlContent>> ELSE <<>>,
         cluster |-> IF u.err = "nil" THEN cl \cup {u.obj} ELSE cl]

\* applyYAMLToCluster deleting the objects of the manifest's namespace on a parse error
applyYAMLCleansUp(yamlContent, cl) ==
    LET u == Unmarshal(yamlContent)
    IN  [err |-> u.err,
         printed |-> IF u.err = "nil" THEN <<yamlContent>> ELSE <<>>,
         cluster |-> IF u.err = "nil" THEN cl
                     ELSE {o \in cl : o.fields.namespace # yamlContent.fields.namespace}]

\* applyYAMLToCluster: parse, print, return; cl is the cluster behind k8sClient
applyYAMLToCluster(yamlContent, cl) ==
    LET u == Unmarshal(yamlContent)
    IN  [err |-> u.err,
         printed |-> IF u.err = "nil" THEN <<yamlContent>> ELSE <<>>,
         cluster |-> cl]

----------------------------------------------------------------------------
(* The API server behind clientset.CoreV1().Secrets(namespace).Create *)

\* a DNS-1123 subdomain built from the pieces of the model: the API server's name rule
IsDNS1123Subdomain(s) ==
    /\ s # <<>>
    /\ \A i \in 1..Len(s) : s[i] \in PlainPieces \cup {"vcenter.example.com"}
    /\ StrLen(s) <= 253

\* the objects of the cluster are keyed by kind, namespace and name
SameKey(a, b) ==
    /\ a.kind = b.kind
    /\ a.fields.namespace = b.fields.namespace
    /\ a.fields.name = b.fields.name

Exists(cl, obj) == \E o \in cl : SameKey(o, obj)

\* Create without the server's check that the name is free
CreateErrsUnchecked(cl, obj) ==
    {"Transient", "Forbidden"} \cup
        (IF ~IsDNS1123Subdomain(obj.fields.name) THEN {"Invalid"} ELSE {"nil"})


\* the errors Create can return for obj against cluster cl ("nil" is success):
\* the call may not reach the server or be refused (Transient, Forbidden); a call
\* that is served is Invalid, AlreadyExists or succeeds
CreateErrs(cl, obj) ==
    {"Transient", "Forbidden"} \cup
        (IF ~IsDNS1123Subdomain(obj.fields.name) THEN {"Invalid"}
         ELSE IF Exists(cl, obj) THEN {"AlreadyExists"}
         ELSE {"nil"})

\* the cluster after Create returned err
CreateEffect(cl, obj, err) == IF err = "nil" THEN cl \cup {obj} ELSE cl

----------------------------------------------------------------------------
(* main *)

\* the values a run may be given where main has its literals (the literal comes first)
NameInputs == {<<"vmware-demo">>, <<"vm2">>, <<"Bad_Name">>}
HostInputs == {<<"vcenter.example.com">>, <<"a: b">>}
PlanNameInputs == {<<"migration-plan-demo">>, <<"a: b">>}
MigrationNameInputs == {<<"migration-demo">>}

Requests ==
    [Name : NameInputs, Host : HostInputs,
     planName : PlanNameInputs, migrationName : MigrationNameInputs]

NoRequest ==
    [Name |-> <<>>, Host |-> <<>>, planName |-> <<>>, migrationName |-> <<>>]

Entry(stage, err, obj) == [stage |-> stage, err |-> err, obj |-> obj]

AllOk(t) == \A i \in 1..Len(t) : t[i].err = "nil"

\* main going on to the Plan right after the secret
AfterSecretSkipsProvider(err) == IF err = "nil" THEN "plan" ELSE "failed"

\* main taking an existing secret for a created one
AfterSecretIdempotent(err) ==
    IF err \in {"nil", "AlreadyExists"} THEN "provider" ELSE "failed"

\* main calling createSecretForVMware again after a transient error
AfterSecretRetries(err) ==
    IF err = "nil" THEN "provider" ELSE IF err = "Transient" THEN "secret" ELSE "failed"

\* where main goes after createSecretForVMware returned err (log.Fatalf on an error)
AfterSecret(err) == IF err = "nil" THEN "provider" ELSE "failed"

\* where main goes after the Provider manifest was applied (log.Fatalf on an error)
AfterProvider(err) == IF err = "nil" THEN "plan" ELSE "failed"

\* where main goes after the Plan manifest was applied: the error is assigned to _
AfterPlan(err) == "migration"

\* where main goes after the Migration manifest was applied: the error is assigned to _
AfterMigration(err) == "done"

Init ==
    /\ cluster = {}
    /\ pc = [r \in Runs |-> "init"]
    /\ req = [r \in Runs |-> NoRequest]
    /\ trace = [r \in Runs |-> <<>>]
    /\ rerun = [r \in Runs |-> FALSE]
    /\ bIn = [kind |-> "none", name |-> <<>>, namespace |-> <<>>, ref |-> <<>>]
    /\ bOut = <<>>

\* the process starts: kubeconfig, clients, details and the names
Start(r) ==
    /\ pc[r] = "init"
    /\ \E q \in Requests :
          /\ req' = [req EXCEPT ![r] = q]
          /\ rerun' = [rerun EXCEPT ![r] =
                          \E o \in Runs : /\ pc[o] = "done"
                                          /\ AllOk(trace[o])
                                          /\ req[o] = q]
    /\ pc' = [pc EXCEPT ![r] = "secret"]
    /\ UNCHANGED <<cluster, trace, buildVars>>

\* createSecretForVMware and the check of its error
CreateSecret(r) ==
    /\ pc[r] = "secret"
    /\ LET obj == SecretObject(Namespace, SecretNameOf(req[r].Name), Username, Password)
       IN  \E err \in CreateErrs(cluster, obj) :
              /\ cluster' = CreateEffect(cluster, obj, err)
              /\ trace' = [trace EXCEPT ![r] = Append(@, Entry("Secret", err, obj))]
              /\ pc' = [pc EXCEPT ![r] = AfterSecret(err)]
    /\ UNCHANGED <<req, rerun, buildVars>>

\* createVMwareProviderYAML, client.New, applyYAMLToCluster and the checks of their errors
ApplyProvider(r) ==
    /\ pc[r] = "provider"
    /\ LET b == createVMwareProviderYAML(req[r].Name, req[r].Host,
                                         SecretNameOf(req[r].Name), Namespace)
       IN  \E clientErr \in {"nil", "ClientError"} :
              LET a == applyYAMLToCluster(b.doc, cluster)
                  err == IF b.err # "nil" THEN b.err
                         ELSE IF clientErr # "nil" THEN clientErr
                         ELSE a.err
              IN  /\ cluster' = IF b.err = "nil" /\ clientErr = "nil"
                                THEN a.cluster ELSE cluster
                  /\ trace' = [trace EXCEPT ![r] = Append(@, Entry("Provider", err, b.doc))]
                  /\ pc' = [pc EXCEPT ![r] = AfterProvider(err)]
    /\ UNCHANGED <<req, rerun, buildVars>>

\* createPlanYAML and applyYAMLToCluster
ApplyPlan(r) ==
    /\ pc[r] = "plan"
    /\ LET b == createPlanYAML(req[r].planName, req[r].Name, DestProvider, VmID,
                               NetworkMap, StorageMap, Namespace)
           a == applyYAMLToCluster(b.doc, cluster)
       IN  /\ cluster' = IF b.err = "nil" THEN a.cluster ELSE cluster
           /\ trace' = [trace EXCEPT ![r] =
                           Append(@, Entry("Plan", IF b.err # "nil" THEN b.err ELSE a.err, b.doc))]
           /\ pc' = [pc EXCEPT ![r] = IF b.err # "nil" THEN "failed" ELSE AfterPlan(a.err)]
    /\ UNCHANGED <<req, rerun, buildVars>>

\* createMigrationYAML, applyYAMLToCluster and the final message
ApplyMigration(r) ==
    /\ pc[r] = "migration"
    /\ LET b == createMigrationYAML(req[r].migrationName, req[r].planName, Namespace)
           a == applyYAMLToCluster(b.doc, cluster)
       IN  /\ cluster' = IF b.err = "nil" THEN a.cluster ELSE cluster
           /\ trace' = [trace EXCEPT ![r] =
                           Append(@, Entry("Migration", IF b.err # "nil" THEN b.err ELSE a.err, b.doc))]
           /\ pc' = [pc EXCEPT ![r] = IF b.err # "nil" THEN "failed" ELSE AfterMigration(a.err)]
    /\ UNCHANGED <<req, rerun, buildVars>>

Next ==
    \E r \in Runs :
        \/ Start(r)
        \/ CreateSecret(r)
        \/ ApplyProvider(r)
        \/ ApplyPlan(r)
        \/ ApplyMigration(r)

Spec == Init /\ [][Next]_vars

----------------------------------------------------------------------------
(* The builders and applyYAMLToCluster called on their own *)

\* parameter values for a stand-alone call: empty, valid, invalid as a name, too long,
\* and one that is not a YAML plain scalar
ParamInputs == {<<>>, <<"vmware-demo">>, <<"Bad_Name">>, <<"x254">>, <<"a: b">>}
NamespaceInputs == {<<"forklift">>, <<>>}

InitBuild ==
    /\ cluster = {}
    /\ pc = [r \in Runs |-> "init"]
    /\ req = [r \in Runs |-> NoRequest]
    /\ trace = [r \in Runs |-> <<>>]
    /\ rerun = [r \in Runs |-> FALSE]
    /\ bIn \in [kind : {"none"}, name : ParamInputs, namespace : NamespaceInputs,
                ref : ParamInputs]
    /\ bOut = <<>>

Built(kind, b) == [kind |-> kind, err |-> b.err, doc |-> b.doc]

CallProviderBuilder ==
    /\ bOut = <<>>
    /\ bOut' = <<Built("Provider",
                       createVMwareProviderYAML(bIn.name, <<"vcenter.example.com">>,
                                                bIn.ref, bIn.namespace))>>
    /\ UNCHANGED <<runVars, bIn>>

CallPlanBuilder ==
    /\ bOut = <<>>
    /\ bOut' = <<Built("Plan",
                       createPlanYAML(bIn.name, bIn.ref, DestProvider, VmID,
                                      NetworkMap, StorageMap, bIn.namespace))>>
    /\ UNCHANGED <<runVars, bIn>>

CallMigrationBuilder ==
    /\ bOut = <<>>
    /\ bOut' = <<Built("Migration",
                       createMigrationYAML(bIn.name, bIn.ref, bIn.namespace))>>
    /\ UNCHANGED <<runVars, bIn>>

CallApply ==
    /\ Len(bOut) = 1
    /\ LET a == applyYAMLToCluster(bOut[1].doc, cluster)
       IN  /\ bOut' = Append(bOut, [kind |-> "apply", err |-> a.err, doc |-> bOut[1].doc])
           /\ cluster' = a.cluster
    /\ UNCHANGED <<pc, req, trace, rerun, bIn>>

NextBuild ==
    \/ CallProviderBuilder
    \/ CallPlanBuilder
    \/ CallMigrationBuilder
    \/ CallApply

SpecBuild == InitBuild /\ [][NextBuild]_vars

----------------------------------------------------------------------------
(* Properties *)

StagesOf(t) == [i \in 1..Len(t) |-> t[i].stage]

KindsOf(t) == [i \in 1..Len(t) |-> t[i].obj.kind]

IsWorkflowEntry(e) == e.obj.kind # "Secret"

StageOrder == <<"Secret", "Provider", "Plan", "Migration">>

Attempts(t, stage) == Cardinality({i \in 1..Len(t) : t[i].stage = stage})

\* C1 as stated: a run in which every stage succeeds creates, in this order,
\* Provider (source), Provider (destination), NetworkMap, StorageMap, Plan, Migration.
C1_SixStagesInOrder ==
    \A r \in Runs :
        (pc[r] = "done" /\ AllOk(trace[r]))
            => KindsOf(SelectSeq(trace[r], IsWorkflowEntry))
                 = <<"Provider", "Provider", "NetworkMap", "StorageMap", "Plan", "Migration">>

\* C1 amended: the stages of a run are attempted in exactly the order Secret,
\* Provider, Plan, Migration, none skipped or repeated, and a run in which every stage
\* succeeds ends with exactly these four; no destination Provider, NetworkMap or
\* StorageMap object is ever built.
C1_FourStagesInOrder ==
    \A r \in Runs :
        /\ Len(trace[r]) <= Len(StageOrder)
        /\ StagesOf(trace[r]) = SubSeq(StageOrder, 1, Len(trace[r]))
        /\ KindsOf(trace[r]) = StagesOf(trace[r])
        /\ (pc[r] = "done" /\ AllOk(trace[r])) => StagesOf(trace[r]) = StageOrder

C1_Witness == \E r \in Runs : pc[r] = "done" /\ AllOk(trace[r])

C4_RerunDoesNotFail ==
    \A r \in Runs :
        rerun[r] => ~(/\ pc[r] = "failed"
                      /\ trace[r][Len(trace[r])].err = "AlreadyExists")

\* C4 amended: a run repeated with the same parameters after a fully successful run
\* fails at its first stage: the secret create is rejected (AlreadyExists when the
\* call is served), nothing is created and no later stage is attempted.
C4_RerunFailsAtSecret ==
    \A r \in Runs :
        (rerun[r] /\ pc[r] \notin {"init", "secret"})
            => /\ pc[r] = "failed"
               /\ StagesOf(trace[r]) = <<"Secret">>
               /\ trace[r][1].err \in {"AlreadyExists", "Transient", "Forbidden"}
               /\ trace[r][1].obj \in cluster

C4_Witness ==
    \E r \in Runs :
        rerun[r] /\ pc[r] = "failed" /\ trace[r][1].err = "AlreadyExists"

\* C5 as stated: a transient backend error is retried within the stage, so a run
\* that failed on a transient error attempted that stage more than once; a fatal
\* error fails the stage at once.
C5_TransientIsRetried ==
    \A r \in Runs :
        \A i \in 1..Len(trace[r]) :
            /\ trace[r][i].err = "Transient"
                 => (pc[r] = "failed" => Attempts(trace[r], trace[r][i].stage) > 1)
            /\ trace[r][i].err \in {"Forbidden", "Invalid", "AlreadyExists"}
                 => (pc[r] = "failed" /\ i = Len(trace[r]))

\* C5 amended: every error of the secret create, transient or fatal, ends the run
\* at once as failed, and no stage is ever attempted a second time.
C5_NoRetryAnyError ==
    \A r \in Runs :
        /\ \A stage \in {"Secret", "Provider", "Plan", "Migration"} :
               Attempts(trace[r], stage) <= 1
        /\ \A i \in 1..Len(trace[r]) :
               (trace[r][i].stage = "Secret" /\ trace[r][i].err # "nil")
                   => (pc[r] = "failed" /\ Len(trace[r]) = 1)

C5_Witness ==
    \E r \in Runs :
        pc[r] = "failed" /\ Len(trace[r]) = 1 /\ trace[r][1].err = "Transient"

NameCharsetOk(s) == \A i \in 1..Len(s) : s[i] \in PlainPieces

\* lowercase alphanumerics and hyphens, at most 253 characters, not empty
ValidName(s) == s # <<>> /\ NameCharsetOk(s) /\ StrLen(s) <= 253

ValidBuilderCall == ValidName(bIn.name) /\ ValidName(bIn.ref) /\ ValidName(bIn.namespace)

\* C7 as stated: a builder returns a validation error and no manifest exactly when
\* a required parameter is empty or a name breaks the naming constraints.
C7_BuilderValidates ==
    Len(bOut) >= 1 => ((bOut[1].err # "nil") <=> ~ValidBuilderCall)

\* C7 amended: each builder returns a manifest and a nil error for every input,
\* empty and invalid names included; the parameters are substituted unchecked.
C7_BuilderNeverFails ==
    Len(bOut) >= 1 =>
        /\ bOut[1].err = "nil"
        /\ bOut[1].doc.kind = bOut[1].kind
        /\ bOut[1].doc.fields.name = bIn.name
        /\ bOut[1].doc.fields.namespace = bIn.namespace

C7_Witness ==
    /\ Len(bOut) >= 1
    /\ ~ValidBuilderCall
    /\ bIn.name = <<>>
    /\ bOut[1].kind = "Migration"

\* C8: applying a manifest never changes the cluster: the apply returns a parse
\* error or success and the objects stay the same, so that the cluster only ever
\* holds the secrets the runs created.
C8_ApplyLeavesCluster ==
    /\ [][\A r \in Runs :
             (pc[r] \in {"provider", "plan", "migration"} /\ pc'[r] # pc[r])
                 => cluster' = cluster]_vars
    /\ [](/\ \A o \in cluster : o.kind = "Secret"
          /\ \A r \in Runs :
                /\ \A i \in 1..Len(trace[r]) :
                      trace[r][i].stage # "Secret"
                          => trace[r][i].err \in {"nil", "yaml", "ClientError"}
                /\ pc[r] = "done" =>
                      {o \in cluster : SameKey(o, trace[r][1].obj)} = {trace[r][1].obj})

C8_Witness ==
    \E r \in Runs :
        /\ pc[r] = "done"
        /\ trace[r][2].err = "nil"
        /\ trace[r][3].err = "yaml"
        /\ cluster = {trace[r][1].obj}

\* C9: no step removes or changes an object of the cluster, and the secret a run
\* created is still there, as created, when the run has failed.
C9_NoRollback ==
    /\ [][cluster \subseteq cluster']_vars
    /\ [](\A r \in Runs :
             (pc[r] = "failed" /\ trace[r][1].err = "nil")
                 => trace[r][1].obj \in cluster)

C9_Witness ==
    \E r \in Runs :
        /\ pc[r] = "failed"
        /\ Len(trace[r]) = 2
        /\ trace[r][2].err = "yaml"
        /\ trace[r][1].obj \in cluster

\* C10: the Provider manifest refers to the secret the run created before (same
\* name, same namespace), the Plan names that Provider as its source, the Migration
\* names that Plan, and every object of the run is in one namespace.
C10_IdentifiersCarried ==
    \A r \in Runs :
        LET t == trace[r]
        IN  /\ Len(t) >= 2 =>
                 /\ t[1].stage = "Secret" /\ t[1].err = "nil"
                 /\ t[1].obj \in cluster
                 /\ t[2].obj.fields.secretName = t[1].obj.fields.name
                 /\ t[2].obj.fields.secretNamespace = t[1].obj.fields.namespace
            /\ Len(t) >= 3 => t[3].obj.fields.source = t[2].obj.fields.name
            /\ Len(t) >= 4 => t[4].obj.fields.plan = t[3].obj.fields.name
            /\ \A i, j \in 1..Len(t) :
                   t[i].obj.fields.namespace = t[j].obj.fields.namespace

C10_Witness ==
    \E r \in Runs :
        /\ Len(trace[r]) = 4
        /\ trace[r][2].obj.fields.secretName = <<"vm2", "-secret">>
        /\ trace[r][4].obj.fields.plan = <<"migration-plan-demo">>

====
